---- MODULE Spec2Model ----
(***************************************************************************)
(* Admin front-end pages of the document-indexing platform:                *)
(*   - the Salesforce KB Articles connector page (MainSection), a client   *)
(*     component deriving its view from two SWR caches and issuing         *)
(*     backend mutations from its event handlers;                          *)
(*   - the Slack-bot configuration creation page (Page), a server          *)
(*     component that awaits two fetches and renders a callout or a form.  *)
(***************************************************************************)
EXTENDS Integers, Sequences, FiniteSets, TLC

VARIABLES
    backendCredentials,   \* credentials stored by the backend
    nextCredId,           \* id the backend gives to the next credential
    backendConnectors,    \* connectors stored by the backend (append only)
    createdByPage,        \* ids of the connectors created through ConnectorForm
    statusFetch,          \* useSWR("/api/manage/admin/connector/indexing-status")
    credFetch,            \* usePublicCredentials()
    pendingDeletes,       \* adminDeleteCredential calls awaited by onClick
    pendingLinks,         \* linkCredential calls awaited by onCredentialLink
    ev,                   \* the last handler or callback that ran, the calls it
                          \* made and, for a deletion, the credential id
    docTask,              \* fetchSS("/manage/document-set")
    asstTask              \* fetchAssistantsSS()

sfVars == <<backendCredentials, nextCredId, backendConnectors, createdByPage,
            statusFetch, credFetch, pendingDeletes, pendingLinks, ev>>
botVars == <<docTask, asstTask>>
vars == <<backendCredentials, nextCredId, backendConnectors, createdByPage,
          statusFetch, credFetch, pendingDeletes, pendingLinks, ev,
          docTask, asstTask>>

----------------------------------------------------------------------------
(* Bounds of the model *)

MaxCredId == 2      \* credentials the backend ever stores
MaxConns == 2       \* connectors the backend ever stores
MaxPending == 1     \* backend calls awaited by handlers at once
MaxDocSets == 2     \* length of the document-set and assistant lists

----------------------------------------------------------------------------
(* JavaScript values *)

UNDEFINED == "<undefined>"
NULL == "<null>"

\* JavaScript truthiness of a string-or-missing value
Truthy(v) == v \notin {UNDEFINED, NULL, ""}

\* Array.prototype.join: the elements with sep between consecutive ones
RECURSIVE JoinFrom(_, _, _, _)
JoinFrom(arr, sep, k, R) ==
    IF k > Len(arr) THEN R
    ELSE JoinFrom(arr, sep, k + 1, (IF k > 1 THEN R \o sep ELSE R) \o arr[k])

ArrayJoin(arr, sep) == JoinFrom(arr, sep, 1, "")

\* `${array}`: Array.prototype.toString, which is join(",")
TemplateOfArray(arr) == ArrayJoin(arr, ",")

----------------------------------------------------------------------------
(* Data the backend can hold *)

ObjectsPool == { <<>>, <<"Studio">>, <<"Studio", "Robot">> }

JsonPool ==
    { [present |-> FALSE, sf_username |-> UNDEFINED],
      [present |-> TRUE,  sf_username |-> UNDEFINED],
      [present |-> TRUE,  sf_username |-> ""],
      [present |-> TRUE,  sf_username |-> "alice"] }

ConfigPool ==
    { [source |-> "salesforce", requested_objects |-> o] : o \in ObjectsPool }
    \cup { [source |-> "web", requested_objects |-> <<>>] }

HandlerJsonPool ==
    { [present |-> TRUE,  sf_username |-> ""],
      [present |-> TRUE,  sf_username |-> "alice"] }

HandlerConfigPool ==
    { [source |-> "salesforce", requested_objects |-> <<"Studio">>] }

FormValuesPool == { <<"Studio", "Robot">> }

MkCredential(i, json) == [id |-> i, credential_json |-> json]

MkStatus(i, cfg) ==
    [connector |-> [id |-> i, source |-> cfg.source,
                    connector_specific_config |->
                        [requested_objects |-> cfg.requested_objects]]]

NoData == [has |-> FALSE, val |-> <<>>]
Data(v) == [has |-> TRUE, val |-> v]

----------------------------------------------------------------------------
(* The Salesforce page: hook outputs *)

\* SWR's isLoading: a request is in flight and no data has been loaded yet
IsLoading(f) == f.inflight /\ ~f.data.has

connectorIndexingStatuses == statusFetch.data
isConnectorIndexingStatusesLoading == IsLoading(statusFetch)
isConnectorIndexingStatusesError == statusFetch.error
credentialsData == credFetch.data
isCredentialsLoading == IsLoading(credFetch)
isCredentialsError == credFetch.error

----------------------------------------------------------------------------
(* The Salesforce page: MainSection's render, a function of the hook outputs *)

\* a guard that waits only while both fetches are loading
LoadingGuard_Both(sData, sLoading, cData, cLoading) ==
    (~sData.has /\ sLoading) /\ (~cData.has /\ cLoading)

LoadingGuard(sData, sLoading, cData, cLoading) ==
    (~sData.has /\ sLoading) \/ (~cData.has /\ cLoading)

\* a guard that looks at the data and forgets the error
ConnectorsFailedGuard_DataOnly(sError, sData) == ~sData.has

ConnectorsFailedGuard(sError, sData) == sError \/ ~sData.has

CredentialsFailedGuard(cError, cData) == cError \/ ~cData.has

\* the statuses passed on without the filter
SalesforceConnectorIndexingStatuses_Unfiltered(statuses) == statuses

\* connectorIndexingStatuses.filter(s => s.connector.source === "salesforce")
IsSalesforceStatus(s) == s.connector.source = "salesforce"

SalesforceConnectorIndexingStatuses(statuses) ==
    SelectSeq(statuses, IsSalesforceStatus)

\* credential.credential_json?.sf_username
OptionalUsername(credential) ==
    IF credential.credential_json.present
    THEN credential.credential_json.sf_username
    ELSE UNDEFINED

\* a predicate that asks for the field instead of a truthy value
FindPredicate_HasField(credential) == OptionalUsername(credential) # UNDEFINED

FindPredicate(credential) == Truthy(OptionalUsername(credential))

\* a lookup that keeps the last match instead of the first
FindIndex_Last(credentials) ==
    LET hits == { i \in 1..Len(credentials) :
                    Truthy(OptionalUsername(credentials[i])) }
    IN  IF hits = {} THEN 0
        ELSE CHOOSE i \in hits : \A j \in hits : i >= j

\* credentialsData.find(...): index of the first credential the predicate
\* accepts, 0 when find returns undefined
FindIndex(credentials) ==
    LET hits == { i \in 1..Len(credentials) : FindPredicate(credentials[i]) }
    IN  IF hits = {} THEN 0
        ELSE CHOOSE i \in hits : \A j \in hits : i <= j

NoCredential == MkCredential(0, [present |-> FALSE, sf_username |-> UNDEFINED])

SfKbArticlesCredential(credentials) ==
    LET i == FindIndex(credentials)
    IN  [found |-> i # 0,
         credential |-> IF i = 0 THEN NoCredential ELSE credentials[i]]

\* a column that joins the way nameBuilder does, with "-"
getValue_Dashes(ccPairStatus) ==
    ArrayJoin(ccPairStatus.connector.connector_specific_config
                  .requested_objects, "-")

\* specialColumns[0].getValue
getValue(ccPairStatus) ==
    LET connectorConfig == ccPairStatus.connector.connector_specific_config
    IN  TemplateOfArray(connectorConfig.requested_objects)

ShowTable(rows) == Len(rows) > 0

ShowConnectorForm(cred) == cred.found

\* a form that creates connectors of the source the table lists
ConnectorFormSource_Salesforce == "salesforce"

ConnectorFormSource == "sfkbarticles"

RefreshFreq == 10 * 60

Blank ==
    [view |-> "main",
     credentialForm |-> FALSE,
     deleteButton |-> FALSE,
     table |-> FALSE,
     connectorForm |-> FALSE,
     rows |-> <<>>,
     specialColumn |-> <<>>,
     liveCredentialId |-> 0,
     credentialId |-> 0,
     refreshFreq |-> 0,
     source |-> ""]

Render(sData, sLoading, sError, cData, cLoading, cError) ==
    IF LoadingGuard(sData, sLoading, cData, cLoading)
    THEN [Blank EXCEPT !.view = "loading"]
    ELSE IF ConnectorsFailedGuard(sError, sData)
    THEN [Blank EXCEPT !.view = "failedConnectors"]
    ELSE IF CredentialsFailedGuard(cError, cData)
    THEN [Blank EXCEPT !.view = "failedCredentials"]
    ELSE
      LET rows == SalesforceConnectorIndexingStatuses(sData.val)
          cred == SfKbArticlesCredential(cData.val)
          form == ShowConnectorForm(cred)
      IN  [view |-> "main",
           credentialForm |-> ~cred.found,
           deleteButton |-> cred.found,
           table |-> ShowTable(rows),
           connectorForm |-> form,
           rows |-> IF ShowTable(rows) THEN rows ELSE <<>>,
           specialColumn |-> IF ShowTable(rows)
                             THEN [k \in 1..Len(rows) |-> getValue(rows[k])]
                             ELSE <<>>,
           liveCredentialId |-> cred.credential.id,
           credentialId |-> IF form THEN cred.credential.id ELSE 0,
           refreshFreq |-> IF form THEN RefreshFreq ELSE 0,
           source |-> IF form THEN ConnectorFormSource ELSE ""]

MainSection ==
    Render(connectorIndexingStatuses, isConnectorIndexingStatusesLoading,
           isConnectorIndexingStatusesError,
           credentialsData, isCredentialsLoading, isCredentialsError)

----------------------------------------------------------------------------
(* The Salesforce page: state after mount *)

SeqsUpTo(pool, n) == UNION { [1..k -> pool] : k \in 0..n }

\* the page right after mount, over a backend holding credentials with the
\* payloads of jsonPool and connectors with the configurations of cfgPool
Mounted(jsonPool, cfgPool) ==
    /\ \E jsons \in SeqsUpTo(jsonPool, MaxCredId) :
          /\ backendCredentials =
                [i \in 1..Len(jsons) |-> MkCredential(i, jsons[i])]
          /\ nextCredId = Len(jsons) + 1
    /\ \E cfgs \in SeqsUpTo(cfgPool, MaxConns) :
          backendConnectors = [i \in 1..Len(cfgs) |-> MkStatus(i, cfgs[i])]
    /\ createdByPage = {}
    /\ statusFetch = [data |-> NoData, inflight |-> TRUE, error |-> FALSE]
    /\ credFetch = [data |-> NoData, inflight |-> TRUE, error |-> FALSE]
    /\ pendingDeletes = <<>>
    /\ pendingLinks = <<>>
    /\ ev = [name |-> "Mount", arg |-> 0, outcome |-> "", calls |-> <<>>]
    /\ docTask = [st |-> "pending", ok |-> FALSE, body |-> "", json |-> <<>>]
    /\ asstTask = [st |-> "pending", assistants |-> <<>>, error |-> NULL]

\* the handlers are followed over a backend of few distinct payloads, the
\* render over every payload of the pools
Init == Mounted(HandlerJsonPool, HandlerConfigPool)

InitFetch == Mounted(JsonPool, ConfigPool)

----------------------------------------------------------------------------
(* The Salesforce page: the two caches *)

REFRESH_CREDENTIALS == "refreshCredentials()"
MUTATE_STATUS == "mutate(/api/manage/admin/connector/indexing-status)"
DELETE_CREDENTIAL == "adminDeleteCredential(id)"
LINK_CREDENTIAL == "linkCredential(connectorId, id)"

Has(calls, c) == \E k \in 1..Len(calls) : calls[k] = c

Count(calls, c) == Cardinality({ k \in 1..Len(calls) : calls[k] = c })

\* a response arrives: the data is replaced and the error cleared
Fulfilled(f, val) == [data |-> Data(val), inflight |-> FALSE, error |-> FALSE]

\* the fetcher throws: the error is set and the cached data, if any, is kept
Failed(f) == [f EXCEPT !.inflight = FALSE, !.error = TRUE]

\* a revalidation starts: data and error stay until it settles
Revalidating(f) == [f EXCEPT !.inflight = TRUE]

\* the cache effects of the calls a handler makes
AfterCalls(f, calls, c) == IF Has(calls, c) THEN Revalidating(f) ELSE f

Event(name, arg, outcome, calls) ==
    [name |-> name, arg |-> arg, outcome |-> outcome, calls |-> calls]

Run(name, arg, outcome, calls) ==
    /\ ev' = Event(name, arg, outcome, calls)
    /\ statusFetch' = AfterCalls(statusFetch, calls, MUTATE_STATUS)
    /\ credFetch' = AfterCalls(credFetch, calls, REFRESH_CREDENTIALS)

StatusesArrive ==
    /\ statusFetch.inflight
    /\ statusFetch' = Fulfilled(statusFetch, backendConnectors)
    /\ ev' = Event("StatusesArrive", 0,
                   IF statusFetch.error THEN "recovered" ELSE "ok", <<>>)
    /\ UNCHANGED <<backendCredentials, nextCredId, backendConnectors,
                   createdByPage, credFetch, pendingDeletes,
                   pendingLinks, botVars>>

StatusesFail ==
    /\ statusFetch.inflight
    /\ statusFetch' = Failed(statusFetch)
    /\ ev' = Event("StatusesFail", 0, "rejected", <<>>)
    /\ UNCHANGED <<backendCredentials, nextCredId, backendConnectors,
                   createdByPage, credFetch, pendingDeletes,
                   pendingLinks, botVars>>

StatusesRevalidate ==
    /\ ~statusFetch.inflight
    /\ statusFetch' = Revalidating(statusFetch)
    /\ ev' = Event("StatusesRevalidate", 0, "", <<>>)
    /\ UNCHANGED <<backendCredentials, nextCredId, backendConnectors,
                   createdByPage, credFetch, pendingDeletes,
                   pendingLinks, botVars>>

CredentialsArrive ==
    /\ credFetch.inflight
    /\ credFetch' = Fulfilled(credFetch, backendCredentials)
    /\ ev' = Event("CredentialsArrive", 0,
                   IF credFetch.error THEN "recovered" ELSE "ok", <<>>)
    /\ UNCHANGED <<backendCredentials, nextCredId, backendConnectors,
                   createdByPage, statusFetch, pendingDeletes,
                   pendingLinks, botVars>>

CredentialsFail ==
    /\ credFetch.inflight
    /\ credFetch' = Failed(credFetch)
    /\ ev' = Event("CredentialsFail", 0, "rejected", <<>>)
    /\ UNCHANGED <<backendCredentials, nextCredId, backendConnectors,
                   createdByPage, statusFetch, pendingDeletes,
                   pendingLinks, botVars>>

CredentialsRevalidate ==
    /\ ~credFetch.inflight
    /\ credFetch' = Revalidating(credFetch)
    /\ ev' = Event("CredentialsRevalidate", 0, "", <<>>)
    /\ UNCHANGED <<backendCredentials, nextCredId, backendConnectors,
                   createdByPage, statusFetch, pendingDeletes,
                   pendingLinks, botVars>>

----------------------------------------------------------------------------
(* The Salesforce page: the backend, as the page's calls change it *)

RemoveAt(seq, i) == SubSeq(seq, 1, i - 1) \o SubSeq(seq, i + 1, Len(seq))

\* DELETE credential by id
BackendDeleteCredential(creds, id) == SelectSeq(creds, LAMBDA c : c.id # id)

\* the credential-creation endpoint CredentialForm posts to
BackendCreateCredential(creds, id, json) == Append(creds, MkCredential(id, json))

\* the connector-creation endpoint ConnectorForm posts to: the backend
\* stores the source and the configuration it is given
BackendCreateConnector(conns, source, values) ==
    Append(conns, MkStatus(Len(conns) + 1,
                           [source |-> source,
                            requested_objects |-> values.requested_objects]))

\* how an awaited backend call can settle: "ok" and "httpError" resolve the
\* promise (fetch resolves on every HTTP status), "rejected" throws
Outcomes == {"ok", "httpError", "rejected"}

----------------------------------------------------------------------------
(* The Salesforce page: event handlers *)

\* an onClick that does not await the deletion before refreshing
DeleteOnClickCalls_NoAwait == <<DELETE_CREDENTIAL, REFRESH_CREDENTIALS>>

\* the trash button's onClick, up to its await
DeleteOnClickCalls == <<DELETE_CREDENTIAL>>

\* the trash button's onClick, after its await
DeleteOnClickContinuation(outcome) ==
    IF outcome = "rejected" THEN <<>> ELSE <<REFRESH_CREDENTIALS>>

\* CredentialForm's onSubmit callback
CredentialFormOnSubmit(isSuccess) ==
    IF isSuccess THEN <<REFRESH_CREDENTIALS>> ELSE <<>>

\* ConnectorsTable's onUpdate callback
OnUpdateCalls == <<MUTATE_STATUS>>

\* ConnectorsTable's onCredentialLink callback, up to its await
OnCredentialLinkCalls(found) == IF found THEN <<LINK_CREDENTIAL>> ELSE <<>>

\* an onCredentialLink that links and never invalidates the statuses
OnCredentialLinkContinuation_NoMutate(outcome) == <<>>

\* ConnectorsTable's onCredentialLink callback, after its await
OnCredentialLinkContinuation(outcome) ==
    IF outcome = "rejected" THEN <<>> ELSE <<MUTATE_STATUS>>

\* what ConnectorForm does itself once its submission succeeded
ConnectorFormOnSuccess(isSuccess) ==
    IF isSuccess THEN <<MUTATE_STATUS>> ELSE <<>>

ClickDelete ==
    /\ MainSection.deleteButton
    /\ Len(pendingDeletes) + Len(pendingLinks) < MaxPending
    /\ LET id == MainSection.liveCredentialId
       IN  /\ pendingDeletes' =
                 IF Has(DeleteOnClickCalls, DELETE_CREDENTIAL)
                 THEN Append(pendingDeletes, id) ELSE pendingDeletes
           /\ Run("ClickDelete", id, "", DeleteOnClickCalls)
    /\ UNCHANGED <<backendCredentials, nextCredId, backendConnectors,
                   createdByPage, pendingLinks, botVars>>

DeleteSettles(i, outcome) ==
    /\ i \in 1..Len(pendingDeletes)
    /\ backendCredentials' =
          IF outcome = "ok"
          THEN BackendDeleteCredential(backendCredentials, pendingDeletes[i])
          ELSE backendCredentials
    /\ pendingDeletes' = RemoveAt(pendingDeletes, i)
    /\ Run("DeleteSettles", pendingDeletes[i], outcome,
           DeleteOnClickContinuation(outcome))
    /\ UNCHANGED <<nextCredId, backendConnectors, createdByPage,
                   pendingLinks, botVars>>

CredentialFormSubmit(isSuccess) ==
    /\ MainSection.credentialForm
    /\ isSuccess => nextCredId <= MaxCredId
    /\ backendCredentials' =
          IF isSuccess
          THEN BackendCreateCredential(backendCredentials, nextCredId,
                   [present |-> TRUE, sf_username |-> "alice"])
          ELSE backendCredentials
    /\ nextCredId' = IF isSuccess THEN nextCredId + 1 ELSE nextCredId
    /\ Run("CredentialFormSubmit", 0, IF isSuccess THEN "ok" ELSE "httpError",
           CredentialFormOnSubmit(isSuccess))
    /\ UNCHANGED <<backendConnectors, createdByPage, pendingDeletes,
                   pendingLinks, botVars>>

OnUpdate ==
    /\ MainSection.table
    /\ Run("OnUpdate", 0, "", OnUpdateCalls)
    /\ UNCHANGED <<backendCredentials, nextCredId, backendConnectors,
                   createdByPage, pendingDeletes, pendingLinks,
                   botVars>>

OnCredentialLink(k) ==
    /\ MainSection.table
    /\ k \in 1..Len(MainSection.rows)
    /\ Len(pendingDeletes) + Len(pendingLinks) < MaxPending
    /\ LET connectorId == MainSection.rows[k].connector.id
           found == MainSection.deleteButton
           calls == OnCredentialLinkCalls(found)
       IN  /\ pendingLinks' =
                 IF Has(calls, LINK_CREDENTIAL)
                 THEN Append(pendingLinks,
                             [connectorId |-> connectorId,
                              credentialId |-> MainSection.liveCredentialId])
                 ELSE pendingLinks
           /\ Run("OnCredentialLink", 0, "", calls)
    /\ UNCHANGED <<backendCredentials, nextCredId, backendConnectors,
                   createdByPage, pendingDeletes, botVars>>

LinkSettles(i, outcome) ==
    /\ i \in 1..Len(pendingLinks)
    /\ pendingLinks' = RemoveAt(pendingLinks, i)
    /\ Run("LinkSettles", 0, outcome,
           OnCredentialLinkContinuation(outcome))
    /\ UNCHANGED <<backendCredentials, nextCredId, backendConnectors,
                   createdByPage, pendingDeletes, botVars>>

ConnectorFormSubmit(values, isSuccess) ==
    /\ MainSection.connectorForm
    /\ isSuccess => Len(backendConnectors) < MaxConns
    /\ backendConnectors' =
          IF isSuccess
          THEN BackendCreateConnector(backendConnectors, MainSection.source,
                                      values)
          ELSE backendConnectors
    /\ createdByPage' =
          IF isSuccess
          THEN createdByPage \cup {Len(backendConnectors) + 1}
          ELSE createdByPage
    /\ Run("ConnectorFormSubmit", 0,
           IF isSuccess THEN "ok" ELSE "httpError",
           ConnectorFormOnSuccess(isSuccess))
    /\ UNCHANGED <<backendCredentials, nextCredId, pendingDeletes,
                   pendingLinks, botVars>>

Next ==
    \/ StatusesArrive
    \/ StatusesFail
    \/ StatusesRevalidate
    \/ CredentialsArrive
    \/ CredentialsFail
    \/ CredentialsRevalidate
    \/ ClickDelete
    \/ \E i \in 1..MaxPending + 1, o \in Outcomes : DeleteSettles(i, o)
    \/ \E b \in BOOLEAN : CredentialFormSubmit(b)
    \/ OnUpdate
    \/ \E k \in 1..MaxConns + 1 : OnCredentialLink(k)
    \/ \E i \in 1..MaxPending + 1, o \in Outcomes : LinkSettles(i, o)
    \/ \E o \in FormValuesPool, b \in BOOLEAN :
          ConnectorFormSubmit([requested_objects |-> o], b)

Spec == Init /\ [][Next]_vars

\* the page left alone by the user: only the two caches move
NextFetch ==
    \/ StatusesArrive
    \/ StatusesFail
    \/ StatusesRevalidate
    \/ CredentialsArrive
    \/ CredentialsFail
    \/ CredentialsRevalidate

SpecFetch == InitFetch /\ [][NextFetch]_vars

----------------------------------------------------------------------------
(* The bot-configuration creation page *)

DocSetPool == {"docs-a", "docs-b"}
PersonaPool == {"persona-a", "persona-b"}
BodyPool == {"", "Internal Server Error", "Unauthorized"}
ErrorPool == {"Unknown Error", "Forbidden"}

PendingDoc == [st |-> "pending", ok |-> FALSE, body |-> "", json |-> <<>>]
PendingAsst == [st |-> "pending", assistants |-> <<>>, error |-> NULL]

NoPage ==
    [view |-> "nothing", errorTitle |-> "", errorMsg |-> "",
     documentSets |-> <<>>, personas |-> <<>>]

\* Promise.all(tasks): rejects as soon as one task rejects, resolves once
\* all have resolved, and is pending otherwise
PromiseAll(doc, asst) ==
    IF doc.st = "rejected" \/ asst.st = "rejected" THEN "rejected"
    ELSE IF doc.st = "resolved" /\ asst.st = "resolved" THEN "resolved"
    ELSE "pending"

\* a page that looks at the assistants' error before the response status
Page_AssistantsFirst(doc, asst) ==
    IF PromiseAll(doc, asst) = "pending" THEN NoPage
    ELSE IF PromiseAll(doc, asst) = "rejected"
    THEN [NoPage EXCEPT !.view = "threw"]
    ELSE IF Truthy(asst.error)
    THEN [NoPage EXCEPT
            !.view = "errorCallout",
            !.errorTitle = "Something went wrong :(",
            !.errorMsg = "Failed to fetch assistants - " \o asst.error]
    ELSE IF ~doc.ok
    THEN [NoPage EXCEPT
            !.view = "errorCallout",
            !.errorTitle = "Something went wrong :(",
            !.errorMsg = "Failed to fetch document sets - " \o doc.body]
    ELSE [NoPage EXCEPT
            !.view = "form",
            !.documentSets = doc.json,
            !.personas = asst.assistants]

Page(doc, asst) ==
    IF PromiseAll(doc, asst) = "pending" THEN NoPage
    ELSE IF PromiseAll(doc, asst) = "rejected"
    THEN [NoPage EXCEPT !.view = "threw"]
    ELSE IF ~doc.ok
    THEN [NoPage EXCEPT
            !.view = "errorCallout",
            !.errorTitle = "Something went wrong :(",
            !.errorMsg = "Failed to fetch document sets - " \o doc.body]
    ELSE IF Truthy(asst.error)
    THEN [NoPage EXCEPT
            !.view = "errorCallout",
            !.errorTitle = "Something went wrong :(",
            !.errorMsg = "Failed to fetch assistants - " \o asst.error]
    ELSE [NoPage EXCEPT
            !.view = "form",
            !.documentSets = doc.json,
            !.personas = asst.assistants]

BotPage == Page(docTask, asstTask)

InitBot ==
    /\ backendCredentials = <<>>
    /\ nextCredId = 1
    /\ backendConnectors = <<>>
    /\ createdByPage = {}
    /\ statusFetch = [data |-> NoData, inflight |-> TRUE, error |-> FALSE]
    /\ credFetch = [data |-> NoData, inflight |-> TRUE, error |-> FALSE]
    /\ pendingDeletes = <<>>
    /\ pendingLinks = <<>>
    /\ ev = [name |-> "Mount", arg |-> 0, outcome |-> "", calls |-> <<>>]
    /\ docTask = PendingDoc
    /\ asstTask = PendingAsst

\* fetchSS("/manage/document-set") resolves with a 2xx response
DocumentSetsOk(sets) ==
    /\ docTask.st = "pending"
    /\ docTask' = [st |-> "resolved", ok |-> TRUE, body |-> "", json |-> sets]
    /\ UNCHANGED <<sfVars, asstTask>>

\* fetchSS("/manage/document-set") resolves with a non-2xx response
DocumentSetsNotOk(body) ==
    /\ docTask.st = "pending"
    /\ docTask' = [st |-> "resolved", ok |-> FALSE, body |-> body,
                   json |-> <<>>]
    /\ UNCHANGED <<sfVars, asstTask>>

\* fetchSS("/manage/document-set") rejects (the request itself failed)
DocumentSetsReject ==
    /\ docTask.st = "pending"
    /\ docTask' = [PendingDoc EXCEPT !.st = "rejected"]
    /\ UNCHANGED <<sfVars, asstTask>>

\* fetchAssistantsSS() resolves with [assistants, null]
AssistantsOk(personas) ==
    /\ asstTask.st = "pending"
    /\ asstTask' = [st |-> "resolved", assistants |-> personas, error |-> NULL]
    /\ UNCHANGED <<sfVars, docTask>>

\* fetchAssistantsSS() resolves with [[], error]
AssistantsError(msg) ==
    /\ asstTask.st = "pending"
    /\ asstTask' = [st |-> "resolved", assistants |-> <<>>, error |-> msg]
    /\ UNCHANGED <<sfVars, docTask>>

\* fetchAssistantsSS() rejects (the request itself failed)
AssistantsReject ==
    /\ asstTask.st = "pending"
    /\ asstTask' = [PendingAsst EXCEPT !.st = "rejected"]
    /\ UNCHANGED <<sfVars, docTask>>

NextBot ==
    \/ \E sets \in SeqsUpTo(DocSetPool, MaxDocSets) : DocumentSetsOk(sets)
    \/ \E body \in BodyPool : DocumentSetsNotOk(body)
    \/ DocumentSetsReject
    \/ \E personas \in SeqsUpTo(PersonaPool, MaxDocSets) :
          AssistantsOk(personas)
    \/ \E msg \in ErrorPool : AssistantsError(msg)
    \/ AssistantsReject

SpecBot == InitBot /\ [][NextBot]_vars

----------------------------------------------------------------------------
(* Properties of the Salesforce page's render *)

\* both caches hold data and neither reports an error
BothSucceeded ==
    /\ statusFetch.data.has /\ ~statusFetch.error
    /\ credFetch.data.has /\ ~credFetch.error

UsernameIsTruthy(c) ==
    /\ c.credential_json.present
    /\ c.credential_json.sf_username # UNDEFINED
    /\ c.credential_json.sf_username # ""

TruthyPositions ==
    { i \in 1..Len(credFetch.data.val) : UsernameIsTruthy(credFetch.data.val[i]) }

SalesforcePositions ==
    { i \in 1..Len(statusFetch.data.val) :
        statusFetch.data.val[i].connector.source = "salesforce" }

RECURSIVE CommaSeparated(_)
CommaSeparated(objs) ==
    IF objs = <<>> THEN ""
    ELSE IF Len(objs) = 1 THEN objs[1]
    ELSE objs[1] \o "," \o CommaSeparated(Tail(objs))

RowsShowRequestedObjects ==
    /\ Len(MainSection.specialColumn) = Len(MainSection.rows)
    /\ \A k \in 1..Len(MainSection.rows) :
          MainSection.specialColumn[k] =
              CommaSeparated(MainSection.rows[k].connector
                                 .connector_specific_config.requested_objects)

\* C1 as stated: with a credential whose username is truthy and a
\* "salesforce" connector, the summary table is rendered, each row showing
\* the connector's requested_objects joined by commas, and the
\* connector-creation form is not rendered.
C1_AsStated ==
    (BothSucceeded /\ TruthyPositions # {} /\ SalesforcePositions # {})
        => /\ MainSection.table
           /\ RowsShowRequestedObjects
           /\ ~MainSection.connectorForm

\* C1 amended: with a credential whose username is truthy and a "salesforce"
\* connector, the summary table is rendered, each row showing the connector's
\* requested_objects joined by commas, and the connector-creation form is
\* rendered as well, below the table.
C1_TableAndForm ==
    (BothSucceeded /\ TruthyPositions # {} /\ SalesforcePositions # {})
        => /\ MainSection.table
           /\ RowsShowRequestedObjects
           /\ MainSection.connectorForm

C1_Witness ==
    /\ BothSucceeded /\ TruthyPositions # {}
    /\ MainSection.table
    /\ \E k \in 1..Len(MainSection.rows) :
          MainSection.specialColumn[k] = "Studio,Robot"

\* C2 as stated: without a credential whose username is truthy, the
\* credential-entry form is rendered and neither the connectors table nor the
\* delete-credential action is, whatever the indexing-status list holds.
C2_AsStated ==
    (BothSucceeded /\ TruthyPositions = {})
        => /\ MainSection.credentialForm
           /\ ~MainSection.table
           /\ ~MainSection.deleteButton

\* C2 amended: without a credential whose username is truthy, the
\* credential-entry form is rendered and neither the delete-credential action
\* nor the connector form is; the connectors table is rendered exactly when
\* the indexing-status list holds a "salesforce" connector.
C2_CredentialFormShown ==
    (BothSucceeded /\ TruthyPositions = {})
        => /\ MainSection.credentialForm
           /\ ~MainSection.deleteButton
           /\ ~MainSection.connectorForm
           /\ MainSection.table <=> (SalesforcePositions # {})

C2_Witness ==
    /\ BothSucceeded /\ TruthyPositions = {}
    /\ Len(credFetch.data.val) > 0
    /\ SalesforcePositions # {}
    /\ MainSection.credentialForm /\ MainSection.table

\* C3: with a credential whose username is truthy and no "salesforce"
\* connector, the connector form is rendered and the table is not; the form
\* gets the id of the first credential whose username is truthy and a poll
\* interval of 600 seconds.
C3_ConnectorFormWiring ==
    (BothSucceeded /\ TruthyPositions # {} /\ SalesforcePositions = {})
        => /\ MainSection.connectorForm
           /\ ~MainSection.table
           /\ MainSection.refreshFreq = 600
           /\ \E i \in TruthyPositions :
                 /\ \A j \in TruthyPositions : i <= j
                 /\ MainSection.credentialId = credFetch.data.val[i].id

C3_Witness ==
    /\ BothSucceeded /\ SalesforcePositions = {}
    /\ Cardinality(TruthyPositions) >= 2
    /\ MainSection.connectorForm

FailureOnly ==
    /\ MainSection.view \in {"failedConnectors", "failedCredentials"}
    /\ ~MainSection.credentialForm /\ ~MainSection.deleteButton
    /\ ~MainSection.connectorForm /\ ~MainSection.table

AnyError == statusFetch.error \/ credFetch.error

InFlightWithoutData(f) == f.inflight /\ ~f.data.has

FormsOrTables ==
    /\ MainSection.view = "main"
    /\ MainSection.credentialForm \/ MainSection.deleteButton

\* C4 as stated: whenever either fetch has reported an error the page shows
\* the failure message and no form or table, whatever the other fetch is
\* doing; once the failed fetch succeeds the forms and tables are back.
C4_AsStated ==
    /\ AnyError => FailureOnly
    /\ (ev.outcome = "recovered" /\ BothSucceeded) => FormsOrTables

\* C4 amended: whenever either fetch has reported an error and no fetch is in
\* flight without cached data, the page shows the failure message and no form
\* or table; once a revalidation of the failed fetch succeeds and both caches
\* hold data without error, the forms and tables are back.
C4_FailureMessage ==
    /\ (AnyError /\ ~InFlightWithoutData(statusFetch)
                 /\ ~InFlightWithoutData(credFetch)) => FailureOnly
    /\ (ev.outcome = "recovered" /\ BothSucceeded) => FormsOrTables

C4_Witness ==
    /\ ev.outcome = "recovered"
    /\ BothSucceeded
    /\ FormsOrTables

\* C5: while a fetch is in flight with no cached data the page shows the
\* loading indicator and no form or table; once each fetch holds data or has
\* settled the loading indicator is not shown.
C5_LoadingIndicator ==
    /\ (InFlightWithoutData(statusFetch) \/ InFlightWithoutData(credFetch))
          => /\ MainSection.view = "loading"
             /\ ~MainSection.credentialForm /\ ~MainSection.deleteButton
             /\ ~MainSection.connectorForm /\ ~MainSection.table
    /\ ((statusFetch.data.has \/ ~statusFetch.inflight)
          /\ (credFetch.data.has \/ ~credFetch.inflight))
          => MainSection.view # "loading"

C5_Witness ==
    /\ statusFetch.data.has /\ ~statusFetch.error
    /\ InFlightWithoutData(credFetch)
    /\ MainSection.view = "loading"

KthPosition(S, k) == CHOOSE i \in S : Cardinality({ j \in S : j < i }) = k - 1

\* C9: the table gets exactly the fetched statuses whose connector source is
\* "salesforce", in their original order, and is rendered iff there is one.
C9_FilteredRows ==
    MainSection.view = "main"
        => /\ MainSection.table <=> (SalesforcePositions # {})
           /\ Len(MainSection.rows) = Cardinality(SalesforcePositions)
           /\ \A k \in 1..Len(MainSection.rows) :
                 MainSection.rows[k] =
                     statusFetch.data.val[KthPosition(SalesforcePositions, k)]

C9_Witness ==
    /\ MainSection.view = "main"
    /\ Len(statusFetch.data.val) > Cardinality(SalesforcePositions)
    /\ 1 \notin SalesforcePositions
    /\ Len(MainSection.rows) >= 1

----------------------------------------------------------------------------
(* Properties of the Salesforce page's handlers *)

\* C6: a click on the delete-credential action calls the backend deletion
\* for the credential the page has selected (the first one whose username is
\* truthy) and triggers no credential re-fetch yet; when that call completes
\* successfully exactly one credential re-fetch is triggered.
C6_DeleteThenRefresh ==
    /\ ev.name = "ClickDelete"
          => /\ Count(ev.calls, DELETE_CREDENTIAL) = 1
             /\ Count(ev.calls, REFRESH_CREDENTIALS) = 0
             /\ \E i \in TruthyPositions :
                   /\ \A j \in TruthyPositions : i <= j
                   /\ ev.arg = credFetch.data.val[i].id
             /\ Len(pendingDeletes) >= 1
             /\ pendingDeletes[Len(pendingDeletes)] = ev.arg
    /\ (ev.name = "DeleteSettles" /\ ev.outcome = "ok")
          => /\ Count(ev.calls, REFRESH_CREDENTIALS) = 1
             /\ credFetch.inflight
             /\ \A i \in 1..Len(backendCredentials) :
                   backendCredentials[i].id # ev.arg

C6_Witness ==
    /\ ev.name = "DeleteSettles" /\ ev.outcome = "ok"
    /\ Count(ev.calls, REFRESH_CREDENTIALS) = 1
    /\ Len(backendCredentials) >= 1

UserMutations == {"DeleteSettles", "LinkSettles", "ConnectorFormSubmit"}

\* C8 as stated: every mutation invoked from the page (delete-credential,
\* link-credential-to-connector, create-connector) is followed by a re-fetch
\* of the indexing-status list.
C8_AsStated ==
    (ev.name \in UserMutations /\ ev.outcome = "ok")
        => /\ Has(ev.calls, MUTATE_STATUS)
           /\ statusFetch.inflight

\* C8 amended: link-credential-to-connector and create-connector, once the
\* backend call has succeeded, and the table's update callback are followed
\* by a re-fetch of the indexing-status list; delete-credential is followed
\* by a re-fetch of the credential list and by none of the indexing-status
\* list.
C8_StatusRefetch ==
    /\ (ev.name \in {"LinkSettles", "ConnectorFormSubmit"} /\ ev.outcome = "ok")
          => /\ Count(ev.calls, MUTATE_STATUS) = 1
             /\ statusFetch.inflight
    /\ ev.name = "OnUpdate"
          => /\ Count(ev.calls, MUTATE_STATUS) = 1
             /\ statusFetch.inflight
    /\ (ev.name = "DeleteSettles" /\ ev.outcome = "ok")
          => /\ ~Has(ev.calls, MUTATE_STATUS)
             /\ Has(ev.calls, REFRESH_CREDENTIALS)

C8_Witness ==
    /\ ev.name = "LinkSettles" /\ ev.outcome = "ok"
    /\ Has(ev.calls, MUTATE_STATUS)
    /\ statusFetch.inflight

InitialSalesforceConnectors ==
    { i \in 1..Len(backendConnectors) :
        /\ i \notin createdByPage
        /\ backendConnectors[i].connector.source = "salesforce" }

\* C10: every connector created through the page's form has the source
\* "sfkbarticles"; no such connector is ever a row of the page's table, and
\* the table has as many rows as there are "salesforce" connectors that the
\* page did not create.
C10_CreatedNeverListed ==
    /\ \A i \in createdByPage :
          backendConnectors[i].connector.source = "sfkbarticles"
    /\ \A k \in 1..Len(MainSection.rows) :
          MainSection.rows[k].connector.id \notin createdByPage
    /\ MainSection.view = "main"
          => Len(MainSection.rows) = Cardinality(InitialSalesforceConnectors)

C10_Witness ==
    /\ MainSection.view = "main"
    /\ MainSection.table
    /\ createdByPage # {}
    /\ \E i \in createdByPage :
          /\ i <= Len(statusFetch.data.val)
          /\ statusFetch.data.val[i].connector.id = i

----------------------------------------------------------------------------
(* Properties of the bot-configuration creation page *)

EndsWith(text, suffix) ==
    /\ Len(text) >= Len(suffix)
    /\ SubSeq(text, Len(text) - Len(suffix) + 1, Len(text)) = suffix

BothCompleted == docTask.st = "resolved" /\ asstTask.st = "resolved"

\* C7: nothing is rendered until both fetches have completed; a non-success
\* document-set response gives an error callout holding the response body
\* (also when the assistants fetch reported an error), else an assistants
\* error gives a callout holding that error; the form is rendered iff both
\* fetches succeeded, with exactly the fetched document sets and assistants.
C7_BotPage ==
    /\ ~BothCompleted => BotPage.view \notin {"errorCallout", "form"}
    /\ (BothCompleted /\ ~docTask.ok)
          => /\ BotPage.view = "errorCallout"
             /\ SubSeq(BotPage.errorMsg, 1, 29) = "Failed to fetch document sets"
             /\ EndsWith(BotPage.errorMsg, docTask.body)
    /\ (BothCompleted /\ docTask.ok /\ asstTask.error # NULL)
          => /\ BotPage.view = "errorCallout"
             /\ SubSeq(BotPage.errorMsg, 1, 26) = "Failed to fetch assistants"
             /\ EndsWith(BotPage.errorMsg, asstTask.error)
    /\ BotPage.view = "form"
          <=> (BothCompleted /\ docTask.ok /\ asstTask.error = NULL)
    /\ BotPage.view = "form"
          => /\ BotPage.documentSets = docTask.json
             /\ BotPage.personas = asstTask.assistants

C7_Witness ==
    /\ BothCompleted
    /\ ~docTask.ok /\ docTask.body = "Unauthorized"
    /\ asstTask.error # NULL
    /\ BotPage.view = "errorCallout"

====
